---- MODULE Spec2Model ----
(***************************************************************************)
(* A model of the bytecode-to-source mapping and symbolic-state            *)
(* bookkeeping code of oyente: utils.py (to_signed, to_unsigned,           *)
(* check_sat, is_storage_var, get_storage_position, rename_vars),          *)
(* ast_helper.py (AstHelper), source_map.py (SourceMap) and oyente.py      *)
(* (run_solidity_analysis).                                                *)
(*                                                                         *)
(* Each component has its own variables and its own specification; a       *)
(* specification holds the variables of the other components at their      *)
(* idle values.                                                            *)
(***************************************************************************)
EXTENDS Integers, Sequences, FiniteSets, TLC

VARIABLES
    number,      \* utils.py: the integer last passed to / returned by a conversion
    orig,        \* the integer the conversions started from
    trail,       \* the conversions applied to orig so far, in order
    scopes,      \* z3 Solver: the assertion stack, one frame per open scope above the
                 \* base frame; a frame is the number of assertions added in it
    cs,          \* the last check_sat call: its arguments and its outcome
    contracts,   \* AstHelper.contracts["contractsById"]: id -> ContractDefinition node
    state_defs,  \* the last extract_state_definitions call: its argument and outcome
    pcs,         \* rename_vars: the path conditions passed in
    global_states, \* rename_vars: the modified storage passed in, as (slot, value)
                 \* pairs in the dict's iteration order
    renamed,     \* the outcome of the last rename_vars call on pcs and global_states
    calls,       \* the number of rename_vars calls made so far
    sm,          \* the class variables of SourceMap: parent_filename,
                 \* position_groups, ast_helper, func_to_sig_by_contract
    built,       \* the last SourceMap construction: its arguments, its outcome and
                 \* the shared artifacts its instance was given
    nbuilt,      \* the number of SourceMap constructions so far
    asm0,        \* the assembly the compiler produced for one contract
    asm,         \* that contract's assembly as SourceMap.position_groups holds it now
    returned,    \* the position streams the _get_positions calls returned, in call order
    source,      \* the Source of the contract's file: content and line_break_positions
    instr_positions, \* SourceMap.instr_positions: pc -> span, as filled by the engine
    answer,      \* the last query on the source text: its argument and what it returned
    functions,   \* the FunctionDefinition nodes of the contract, in source order
    func_name_to_params, \* the outcome of SourceMap._get_func_name_to_params
    var_names,   \* the last extract_state_variable_names call: its argument and outcome
    got,         \* the last _get_positions call: the instance's cname and input_type,
                 \* and its outcome
    contract_paths, \* the keys of AstHelper.contracts["contractsByName"], in the
                 \* dict's iteration order
    callee_src_pairs, \* the outcome of the last get_callee_src_pairs call
    loaded,      \* the file Source(filename) read and how _load_content ended
    inputs,      \* run_solidity_analysis: the inputs passed in, each with its
                 \* c_source and c_name
    runs,        \* the symExec.run calls made so far, in order: the input
                 \* analysed and the return code
    results,     \* run_solidity_analysis: results, c_source -> c_name -> result
    exit_code,   \* run_solidity_analysis: exit_code
    analysis     \* what run_solidity_analysis returned

convVars == <<number, orig, trail>>
solverVars == <<scopes, cs>>
astVars == <<contracts, state_defs>>
renameVars == <<pcs, global_states, renamed, calls>>
mapVars == <<sm, built, nbuilt>>
positionsVars == <<asm0, asm, returned, got>>
textVars == <<source, instr_positions, answer, loaded>>
paramsVars == <<functions, func_name_to_params>>
namesVars == <<var_names>>
calleeVars == <<contract_paths, callee_src_pairs>>
analysisVars == <<inputs, runs, results, exit_code, analysis>>
notConv == <<solverVars, astVars, renameVars, mapVars, positionsVars, textVars, paramsVars, namesVars, calleeVars, analysisVars>>
notSolver == <<convVars, astVars, renameVars, mapVars, positionsVars, textVars, paramsVars, namesVars, calleeVars, analysisVars>>
notAst == <<convVars, solverVars, renameVars, mapVars, positionsVars, textVars, paramsVars, namesVars, calleeVars, analysisVars>>
notRename == <<convVars, solverVars, astVars, mapVars, positionsVars, textVars, paramsVars, namesVars, calleeVars, analysisVars>>
notMap == <<convVars, solverVars, astVars, renameVars, positionsVars, textVars, paramsVars, namesVars, calleeVars, analysisVars>>
notPositions == <<convVars, solverVars, astVars, renameVars, mapVars, textVars, paramsVars, namesVars, calleeVars, analysisVars>>
notText == <<convVars, solverVars, astVars, renameVars, mapVars, positionsVars, paramsVars, namesVars, calleeVars, analysisVars>>
notParams == <<convVars, solverVars, astVars, renameVars, mapVars, positionsVars, textVars, namesVars, calleeVars, analysisVars>>
notNames == <<convVars, solverVars, astVars, renameVars, mapVars, positionsVars, textVars, paramsVars, calleeVars, analysisVars>>
notCallee == <<convVars, solverVars, astVars, renameVars, mapVars, positionsVars, textVars, paramsVars, namesVars, analysisVars>>
notAnalysis == <<convVars, solverVars, astVars, renameVars, mapVars, positionsVars, textVars, paramsVars, namesVars, calleeVars>>
vars == <<number, orig, trail, scopes, cs, contracts, state_defs,
          pcs, global_states, renamed, calls, sm, built, nbuilt,
          asm0, asm, returned,
          source, instr_positions, answer,
          functions, func_name_to_params,
          var_names,
          got,
          contract_paths, callee_src_pairs,
          loaded,
          inputs, runs, results, exit_code, analysis>>

(***************************************************************************)
(* utils.py: 256-bit integers.  Python integers are unbounded and 2**256   *)
(* does not fit a machine word, so an integer is written k * 2**255 + d    *)
(* and kept as the pair <<k, d>> with d small: the pair of an integer is   *)
(* unique as long as |d| < 2**254, and sums and comparisons of pairs are   *)
(* exactly the sums and comparisons of the integers.                       *)
(***************************************************************************)
MaxOffset == 6

MaxUnits == 3

Big(k, d) == <<k, d>>

BigAdd(a, b) == <<a[1] + b[1], a[2] + b[2]>>

BigSub(a, b) == <<a[1] - b[1], a[2] - b[2]>>

BigLt(a, b) == a[1] < b[1] \/ (a[1] = b[1] /\ a[2] < b[2])

BigGe(a, b) == ~BigLt(a, b)

BigZero == Big(0, 0)

\* 2**(256 - 1)
Pow255 == Big(1, 0)

\* 2**256
Pow256 == Big(2, 0)

to_unsigned_add255(n) == IF BigLt(n, BigZero) THEN BigAdd(n, Pow255) ELSE n

to_unsigned(n) == IF BigLt(n, BigZero) THEN BigAdd(n, Pow256) ELSE n

to_signed_strict(n) == IF BigGe(n, Pow255) /\ n # Pow255 THEN BigSub(n, Pow256) ELSE n

to_signed(n) == IF BigGe(n, Pow255) THEN BigSub(n, Pow256) ELSE n

\* [-2**255, 2**255 - 1]
InSigned(n) == BigGe(n, BigSub(BigZero, Pow255)) /\ BigLt(n, Pow255)

\* [0, 2**256 - 1]
InUnsigned(n) == BigGe(n, BigZero) /\ BigLt(n, Pow256)

Numbers == {Big(k, d) : k \in (0 - MaxUnits)..MaxUnits, d \in (0 - MaxOffset)..MaxOffset}

MaxTrail == 2

ToUnsigned ==
    /\ Len(trail) < MaxTrail
    /\ number' = to_unsigned(number)
    /\ trail' = Append(trail, "to_unsigned")
    /\ UNCHANGED <<orig, notConv>>

ToSigned ==
    /\ Len(trail) < MaxTrail
    /\ number' = to_signed(number)
    /\ trail' = Append(trail, "to_signed")
    /\ UNCHANGED <<orig, notConv>>

(***************************************************************************)
(* utils.py: check_sat.  The solver is the z3 collaborator: check() ends   *)
(* with sat, unsat or unknown (reason_unknown() then gives the reason) or  *)
(* raises; pop() closes one scope.                                         *)
(***************************************************************************)
MaxDepth == 2

MaxAsserts == 2

Reasons == {"timeout", "incomplete"}

CheckOutcomes ==
    {[res |-> r, info |-> ""] : r \in {"sat", "unsat"}}
        \cup {[res |-> "unknown", info |-> m] : m \in Reasons}
        \cup {[res |-> "exception", info |-> "canceled"]}

\* the number of open scopes
Depth(st) == Len(st) - 1

\* solver.pop(), n times
Popped(st, n) == SubSeq(st, 1, Len(st) - n)

NoCall == [flag |-> FALSE, check |-> [res |-> "none", info |-> ""], kind |-> "none",
           type |-> "", msg |-> "", pops |-> 0, before |-> <<0>>]

check_sat_nopop(chk, pop_if_exception) ==
    IF chk.res = "unknown"
    THEN [kind |-> "raise", type |-> "Z3Exception", msg |-> chk.info, pops |-> 0]
    ELSE IF chk.res = "exception"
    THEN [kind |-> "raise", type |-> "Exception", msg |-> chk.info, pops |-> 0]
    ELSE [kind |-> "return", type |-> "CheckSatResult", msg |-> chk.res, pops |-> 0]

check_sat_swallow(chk, pop_if_exception) ==
    IF chk.res = "exception"
    THEN [kind |-> "raise", type |-> "Exception", msg |-> chk.info,
          pops |-> IF pop_if_exception THEN 1 ELSE 0]
    ELSE [kind |-> "return", type |-> "CheckSatResult", msg |-> chk.res, pops |-> 0]

check_sat_popalways(chk, pop_if_exception) ==
    IF chk.res = "unknown"
    THEN [kind |-> "raise", type |-> "Z3Exception", msg |-> chk.info,
          pops |-> IF pop_if_exception THEN 1 ELSE 0]
    ELSE IF chk.res = "exception"
    THEN [kind |-> "raise", type |-> "Exception", msg |-> chk.info,
          pops |-> IF pop_if_exception THEN 1 ELSE 0]
    ELSE [kind |-> "return", type |-> "CheckSatResult", msg |-> chk.res,
          pops |-> IF pop_if_exception THEN 1 ELSE 0]

\* the outcome of check_sat(solver, pop_if_exception) when solver.check() ends as
\* chk: what reaches the caller, and the number of solver.pop() calls made
check_sat(chk, pop_if_exception) ==
    IF chk.res = "unknown"
    THEN [kind |-> "raise", type |-> "Z3Exception", msg |-> chk.info,
          pops |-> IF pop_if_exception THEN 1 ELSE 0]
    ELSE IF chk.res = "exception"
    THEN [kind |-> "raise", type |-> "Exception", msg |-> chk.info,
          pops |-> IF pop_if_exception THEN 1 ELSE 0]
    ELSE [kind |-> "return", type |-> "CheckSatResult", msg |-> chk.res, pops |-> 0]

\* the engine opens a scope before it adds a branch condition
SolverPush ==
    /\ Depth(scopes) < MaxDepth
    /\ scopes' = Append(scopes, 0)
    /\ cs' = NoCall
    /\ UNCHANGED notSolver

\* the engine adds a condition to the innermost scope
SolverAdd ==
    /\ scopes[Len(scopes)] < MaxAsserts
    /\ scopes' = [scopes EXCEPT ![Len(scopes)] = @ + 1]
    /\ cs' = NoCall
    /\ UNCHANGED notSolver

\* the engine closes the scope of a branch it has explored
SolverPop ==
    /\ Depth(scopes) > 0
    /\ scopes' = Popped(scopes, 1)
    /\ cs' = NoCall
    /\ UNCHANGED notSolver

\* check_sat(solver, pop_if_exception); the engine passes pop_if_exception=True
\* only inside a scope it has pushed
CheckSat ==
    \E flag \in BOOLEAN, chk \in CheckOutcomes :
        /\ flag => Depth(scopes) > 0
        /\ LET out == check_sat(chk, flag) IN
            /\ cs' = [flag |-> flag, check |-> chk, kind |-> out.kind, type |-> out.type,
                      msg |-> out.msg, pops |-> out.pops, before |-> scopes]
            /\ scopes' = Popped(scopes, out.pops)
        /\ UNCHANGED notSolver

(***************************************************************************)
(* ast_helper.py: the registry of ContractDefinition nodes and the state    *)
(* variables of a contract.  A node has an id, its attributes' name and     *)
(* linearizedBaseContracts (most derived first) and, when the compiler      *)
(* gave it any, its children.  A child is a VariableDeclaration or a        *)
(* FunctionDefinition, which holds the declarations of its parameters.      *)
(***************************************************************************)
MaxChildren == 2

SourceFile == "A.sol"

ContractIds == {1, 2, 3}

\* an id no ContractDefinition of the compilation has
DanglingId == 9

\* the linearizations the compiler can give contract id: the contract itself,
\* then bases declared before it
Linearizations(id) ==
    CASE id = 1 -> {<<1>>}
      [] id = 2 -> {<<2>>, <<2, 1>>}
      [] OTHER -> {<<id>>, <<id, 1>>, <<id, 2>>, <<id, 2, 1>>, <<id, 1, 2>>, <<id, DanglingId>>}

ChildKinds == {"VariableDeclaration", "FunctionDefinition"}

\* the child lists of a contract; has = FALSE is a node without the children key
NoChildren == [has |-> FALSE, kinds |-> <<>>]

ChildShapes ==
    {NoChildren} \cup {[has |-> TRUE, kinds |-> k] :
                        k \in UNION {[1..n -> ChildKinds] : n \in 0..MaxChildren}}

\* the i-th child of contract id
Child(id, i, kind) ==
    [name |-> kind, id |-> <<id, i>>,
     children |-> IF kind = "FunctionDefinition"
                  THEN <<[name |-> "VariableDeclaration", id |-> <<id, i, 1>>, children |-> <<>>]>>
                  ELSE <<>>]

ContractNode(id, lin, shape) ==
    [id |-> id,
     attributes |-> [name |-> id, linearizedBaseContracts |-> lin],
     haschildren |-> shape.has,
     children |-> [i \in 1..Len(shape.kinds) |-> Child(id, i, shape.kinds[i])]]

\* the registries extract_contract_definitions can build from a compilation
Registries ==
    {[id \in ContractIds |-> ContractNode(id, lin[id], shape[id])] :
        lin \in {l \in [ContractIds -> UNION {Linearizations(i) : i \in ContractIds}] :
                    \A id \in ContractIds : l[id] \in Linearizations(id)},
        shape \in [ContractIds -> ChildShapes]}

\* k + ':' + node["attributes"]["name"]
QName(id) == <<SourceFile, id>>

QNames == {QName(id) : id \in ContractIds}

\* contracts["contractsByName"]
contractsByName(byId) == [q \in QNames |-> byId[q[2]]]

RECURSIVE Reversed(_)
Reversed(s) == IF s = <<>> THEN <<>> ELSE Append(Reversed(Tail(s)), Head(s))

\* the VariableDeclaration items among the direct children of a node
RECURSIVE DirectDeclarations(_)
DirectDeclarations(items) ==
    IF items = <<>> THEN <<>>
    ELSE (IF Head(items).name = "VariableDeclaration" THEN <<Head(items)>> ELSE <<>>)
            \o DirectDeclarations(Tail(items))

\* the loop over base_contracts
RECURSIVE CollectDeclarations(_)
CollectDeclarations(bases) ==
    IF bases = <<>> THEN <<>>
    ELSE (IF Head(bases).haschildren THEN DirectDeclarations(Head(bases).children) ELSE <<>>)
            \o CollectDeclarations(Tail(bases))

\* the ids of a linearization all name a contract
Resolvable(byId, lin) == \A i \in 1..Len(lin) : lin[i] \in DOMAIN byId

get_linearized_base_contracts(id, byId) ==
    LET lin == byId[id].attributes.linearizedBaseContracts
    IN [i \in 1..Len(lin) |-> byId[lin[i]]]

extract_state_definitions_unreversed(byId, c_name) ==
    IF c_name \notin DOMAIN contractsByName(byId)
    THEN [kind |-> "raise", error |-> "KeyError", value |-> <<>>]
    ELSE LET node == contractsByName(byId)[c_name] IN
         IF ~Resolvable(byId, node.attributes.linearizedBaseContracts)
         THEN [kind |-> "raise", error |-> "KeyError", value |-> <<>>]
         ELSE [kind |-> "return", error |-> "",
               value |-> CollectDeclarations(get_linearized_base_contracts(node.id, byId))]

extract_state_definitions(byId, c_name) ==
    IF c_name \notin DOMAIN contractsByName(byId)
    THEN [kind |-> "raise", error |-> "KeyError", value |-> <<>>]
    ELSE LET node == contractsByName(byId)[c_name] IN
         IF ~Resolvable(byId, node.attributes.linearizedBaseContracts)
         THEN [kind |-> "raise", error |-> "KeyError", value |-> <<>>]
         ELSE [kind |-> "return", error |-> "",
               value |-> CollectDeclarations(
                            Reversed(get_linearized_base_contracts(node.id, byId)))]

NoExtract == [c_name |-> <<"", 0>>, kind |-> "none", error |-> "", value |-> <<>>]

\* a registry of contracts without bases and without children
IdleRegistry == [id \in ContractIds |-> ContractNode(id, <<id>>, NoChildren)]

ExtractStateDefinitions ==
    \E c_name \in QNames :
        /\ state_defs' = [c_name |-> c_name] @@ extract_state_definitions(contracts, c_name)
        /\ UNCHANGED <<contracts, notAst>>

\* the ids of a set of contracts in the iteration order of contractsById
RECURSIVE IdOrder(_)
IdOrder(ids) ==
    IF ids = {} THEN <<>>
    ELSE LET first == CHOOSE id \in ids : \A other \in ids : id <= other
         IN <<first>> \o IdOrder(ids \ {first})

\* the loop of extract_states_definitions over contractsById: ret is the dict
\* built so far; the first extract_state_definitions that raises ends the loop
RECURSIVE ExtractEach(_, _, _)
ExtractEach(byId, ids, ret) ==
    IF ids = <<>> THEN [kind |-> "return", error |-> "", value |-> ret]
    ELSE LET full_name == QName(byId[Head(ids)].attributes.name)
             defs == extract_state_definitions(byId, full_name)
         IN IF defs.kind = "raise"
            THEN [kind |-> "raise", error |-> defs.error, value |-> <<>>]
            ELSE ExtractEach(byId, Tail(ids), (full_name :> defs.value) @@ ret)

extract_states_definitions(byId) == ExtractEach(byId, IdOrder(DOMAIN byId), <<>>)

\* extract_state_variable_names; a declaration is named by its id
extract_state_variable_names(byId, c_name) ==
    LET all == extract_states_definitions(byId)
    IN IF all.kind = "raise"
       THEN [kind |-> "raise", error |-> all.error, value |-> <<>>]
       ELSE IF c_name \notin DOMAIN all.value
       THEN [kind |-> "raise", error |-> "KeyError", value |-> <<>>]
       ELSE [kind |-> "return", error |-> "",
             value |-> [i \in 1..Len(all.value[c_name]) |-> all.value[c_name][i].id]]

NoNames == [c_name |-> <<"", 0>>, kind |-> "none", error |-> "", value |-> <<>>]

ExtractStateVariableNames ==
    \E c_name \in QNames :
        /\ var_names' = [c_name |-> c_name] @@ extract_state_variable_names(contracts, c_name)
        /\ UNCHANGED notNames

(***************************************************************************)
(* utils.py: is_storage_var, get_storage_position and rename_vars.         *)
(* A variable name is a string, kept as the sequence of its tokens: two    *)
(* names are the same string exactly when their token sequences are equal. *)
(* A z3 expression is kept as the sequence of the variables at its leaves, *)
(* left to right; substitute() keeps the shape of an expression, so the    *)
(* i-th leaf of a renamed expression stands where the i-th leaf of the     *)
(* expression passed in stood.  An entry without leaves is a constant      *)
(* expression or a value that is no expression: both are returned as they  *)
(* are.                                                                    *)
(***************************************************************************)
MaxLeaves == 3

MaxEntries == 2

MaxCalls == 2

Prefix == "Ia_store"

Delim == "-"

Marker == "_old"

Digits == {"3", "7"}

VarNames ==
    {<<"x">>, <<"x", Marker>>,
     <<Prefix, Delim, "3">>, <<Prefix, Delim, "3", Marker>>,
     <<Prefix, Delim, "7">>, <<Prefix, Delim, "3", Delim, "x">>,
     <<Prefix>>}

\* the variables of the expressions passed to rename_vars
RenameNames == VarNames \ {<<Prefix, Delim, "3", Delim, "x">>}

\* var.startswith('Ia_store')
is_storage_var(var) == var # <<>> /\ Head(var) = Prefix

\* var.split('-')
RECURSIVE Split(_, _)
Split(var, part) ==
    IF var = <<>> THEN <<part>>
    ELSE IF Head(var) = Delim THEN <<part>> \o Split(Tail(var), <<>>)
    ELSE Split(Tail(var), Append(part, Head(var)))

\* int(pos) succeeds on a string of digits
IsInt(pos) == Len(pos) = 1 /\ pos[1] \in Digits

\* the slot of a variable name: an integer or a string
get_storage_position(var) ==
    LET parts == Split(var, <<>>) IN
    IF Len(parts) < 2 THEN [kind |-> "raise", error |-> "IndexError", isint |-> FALSE, pos |-> <<>>]
    ELSE [kind |-> "return", error |-> "", isint |-> IsInt(parts[2]), pos |-> parts[2]]

\* a key of global_states
Slot(isint, pos) == [isint |-> isint, pos |-> pos]

Keys == {Slot(TRUE, <<d>>) : d \in Digits}

\* the keys of a global_states dict
KeysOf(gs) == {gs[i][1] : i \in 1..Len(gs)}

\* z3util.get_vars: the variables of an expression, each once, in the order
\* of their first occurrence
RECURSIVE get_vars(_)
get_vars(expr) ==
    IF expr = <<>> THEN <<>>
    ELSE LET rest == get_vars(SubSeq(expr, 1, Len(expr) - 1))
             last == expr[Len(expr)]
         IN IF \E i \in 1..Len(rest) : rest[i] = last THEN rest ELSE Append(rest, last)

\* z3.substitute(expr, (var, new_var))
substitute(expr, var, new_var) ==
    [i \in 1..Len(expr) |-> IF expr[i] = var THEN new_var ELSE expr[i]]

\* var_name + '_old'
NewName(var) == Append(var, Marker)

RenameVarAlways(var, st, keys) ==
    IF st.raised THEN st
    ELSE IF var \in DOMAIN st.map
    THEN [st EXCEPT !.expr = substitute(st.expr, var, st.map[var])]
    ELSE [st EXCEPT !.map = (var :> NewName(var)) @@ st.map,
                    !.expr = substitute(st.expr, var, NewName(var))]

\* one pass of the loop over list_vars: st is the expression as rewritten so
\* far, vars_mapping, and whether an exception has left the function
RenameVar(var, st, keys) ==
    IF st.raised THEN st
    ELSE IF var \in DOMAIN st.map
    THEN [st EXCEPT !.expr = substitute(st.expr, var, st.map[var])]
    ELSE IF is_storage_var(var) /\ get_storage_position(var).kind = "raise"
    THEN [st EXCEPT !.raised = TRUE]
    ELSE IF is_storage_var(var)
            /\ Slot(get_storage_position(var).isint, get_storage_position(var).pos) \notin keys
    THEN st
    ELSE [st EXCEPT !.map = (var :> NewName(var)) @@ st.map,
                    !.expr = substitute(st.expr, var, NewName(var))]

\* the loop over list_vars
RECURSIVE RenameExpr(_, _, _)
RenameExpr(list_vars, st, keys) ==
    IF list_vars = <<>> THEN st
    ELSE RenameExpr(Tail(list_vars), RenameVar(Head(list_vars), st, keys), keys)

\* the loop over a list of expressions: acc is the expressions returned so far,
\* vars_mapping, and whether an exception has left the function
RECURSIVE RenameAll(_, _, _)
RenameAll(exprs, acc, keys) ==
    IF exprs = <<>> \/ acc.raised THEN acc
    ELSE LET st == RenameExpr(get_vars(Head(exprs)),
                              [expr |-> Head(exprs), map |-> acc.map, raised |-> FALSE], keys)
         IN RenameAll(Tail(exprs),
                      [out |-> Append(acc.out, st.expr), map |-> st.map, raised |-> st.raised],
                      keys)

\* the values of a global_states dict, in its iteration order
ValuesOf(gs) == [i \in 1..Len(gs) |-> gs[i][2]]

rename_vars(p, gs) ==
    LET keys == KeysOf(gs)
        first == RenameAll(p, [out |-> <<>>, map |-> <<>>, raised |-> FALSE], keys)
        second == RenameAll(ValuesOf(gs), [out |-> <<>>, map |-> first.map,
                                           raised |-> first.raised], keys)
    IN IF second.raised
       THEN [kind |-> "raise", error |-> "IndexError", ret_pcs |-> <<>>, ret_gs |-> <<>>]
       ELSE [kind |-> "return", error |-> "", ret_pcs |-> first.out,
             ret_gs |-> [i \in 1..Len(gs) |-> <<gs[i][1], second.out[i]>>]]

NotRenamed == [kind |-> "none", error |-> "", ret_pcs |-> <<>>, ret_gs |-> <<>>]

RECURSIVE Sum(_)
Sum(lens) == IF lens = <<>> THEN 0 ELSE Head(lens) + Sum(Tail(lens))

\* the expressions cut from a sequence of leaves, the i-th of lens[i] leaves
Cut(leaves, lens) ==
    [i \in 1..Len(lens) |->
        SubSeq(leaves, Sum(SubSeq(lens, 1, i - 1)) + 1, Sum(SubSeq(lens, 1, i)))]

\* the sequences of n distinct keys
KeyOrders(n) == {ks \in [1..n -> Keys] : \A i, j \in 1..n : i # j => ks[i] # ks[j]}

\* the ways to cut n leaves into at most MaxEntries expressions
Cuts(n) == {l \in UNION {[1..m -> 0..n] : m \in 0..MaxEntries} : Sum(l) = n}

\* the number of path conditions among m expressions: the others are storage
\* values, one for each key
Shares(m) == {k \in 0..m : m - k <= Cardinality(Keys)}

\* rename_vars(pcs, global_states)
RenameVars ==
    /\ renamed.kind = "none"
    /\ renamed' = rename_vars(pcs, global_states)
    /\ calls' = calls + 1
    /\ UNCHANGED <<pcs, global_states, notRename>>

\* the caller passes the renamed path conditions and storage to a next call
RenameAgain ==
    /\ renamed.kind = "return"
    /\ calls < MaxCalls
    /\ pcs' = renamed.ret_pcs
    /\ global_states' = renamed.ret_gs
    /\ renamed' = NotRenamed
    /\ UNCHANGED <<calls, notRename>>

(***************************************************************************)
(* source_map.py: SourceMap.__init__ and the class variables it shares     *)
(* between the instances.  An artifact (the assembly output, the AstHelper, *)
(* the selector table) is kept as the primary file it was built from and    *)
(* the qualified names of the contracts it holds; the class defaults ({}    *)
(* and None) hold no contract and come from no file.                        *)
(***************************************************************************)
MaxBuilds == 3

Files == {"a.sol", "b.sol"}

InputTypes == {"solidity", "standard json", "bytecode"}

\* the contracts in the compiler's output for a primary file; b.sol imports a.sol
Compiled(file) ==
    IF file = "a.sol" THEN {<<"a.sol", "A">>, <<"a.sol", "A2">>}
    ELSE {<<"b.sol", "B">>, <<"a.sol", "A">>, <<"a.sol", "A2">>}

NoArtifact == [src |-> "", names |-> {}]

Artifact(file) == [src |-> file, names |-> Compiled(file)]

ClassDefaults ==
    [parent_filename |-> "", position_groups |-> NoArtifact, ast_helper |-> NoArtifact,
     func_to_sig_by_contract |-> NoArtifact]

\* the block of __init__ that fills the class variables; solc_ok is whether
\* the compiler's output for the primary file can be decoded; compiled is
\* whether the block ran the compiler
SharedInitAlways(class, parent_filename, input_type, solc_ok) ==
    LET c1 == [class EXCEPT !.parent_filename = parent_filename]
        c2 == [c1 EXCEPT !.position_groups =
                            IF solc_ok THEN Artifact(parent_filename) ELSE NoArtifact]
        c3 == [c2 EXCEPT !.ast_helper = Artifact(parent_filename),
                         !.func_to_sig_by_contract = Artifact(parent_filename)]
    IN IF input_type \notin {"solidity", "standard json"}
       THEN [class |-> c1, raised |-> TRUE, error |-> "There is no such type of input",
             compiled |-> FALSE]
       ELSE IF ~solc_ok
       THEN [class |-> c2, raised |-> TRUE, error |-> "ValueError", compiled |-> TRUE]
       ELSE [class |-> c3, raised |-> FALSE, error |-> "", compiled |-> TRUE]

SharedInit(class, parent_filename, input_type, solc_ok) ==
    LET c1 == [class EXCEPT !.parent_filename = parent_filename]
        c2 == [c1 EXCEPT !.position_groups =
                            IF solc_ok THEN Artifact(parent_filename) ELSE NoArtifact]
        c3 == [c2 EXCEPT !.ast_helper = Artifact(parent_filename),
                         !.func_to_sig_by_contract = Artifact(parent_filename)]
    IN IF class.parent_filename # ""
       THEN [class |-> class, raised |-> FALSE, error |-> "", compiled |-> FALSE]
       ELSE IF input_type \notin {"solidity", "standard json"}
       THEN [class |-> c1, raised |-> TRUE, error |-> "There is no such type of input",
             compiled |-> FALSE]
       ELSE IF ~solc_ok
       THEN [class |-> c2, raised |-> TRUE, error |-> "ValueError", compiled |-> TRUE]
       ELSE [class |-> c3, raised |-> FALSE, error |-> "", compiled |-> TRUE]

\* _get_positions: a contract missing from position_groups has no positions
get_positions(class, cname) ==
    IF cname \in class.position_groups.names THEN "stream" ELSE "empty"

\* the part of __init__ that derives the instance's views from the class
\* variables: the first failing lookup ends the construction
InstanceInit(class, cname) ==
    IF class.ast_helper = NoArtifact THEN "AttributeError"
    ELSE IF cname \notin class.ast_helper.names THEN "KeyError"
    ELSE ""

NotBuilt ==
    [cname |-> <<"", "">>, parent_filename |-> "", input_type |-> "", kind |-> "none",
     error |-> "", shared |-> FALSE, compiled |-> FALSE, positions |-> "none"]

\* SourceMap(cname, parent_filename, input_type)
SourceMapInit ==
    \E parent_filename \in Files, input_type \in InputTypes, solc_ok \in BOOLEAN :
        \E cname \in Compiled(parent_filename) :
            LET sh == SharedInit(sm, parent_filename, input_type, solc_ok)
                err == IF sh.raised THEN sh.error ELSE InstanceInit(sh.class, cname)
            IN /\ nbuilt < MaxBuilds
               /\ sm' = sh.class
               /\ built' = [cname |-> cname, parent_filename |-> parent_filename,
                            input_type |-> input_type,
                            kind |-> IF err = "" THEN "ok" ELSE "raise",
                            error |-> err,
                            shared |-> ~sh.raised,
                            compiled |-> sh.compiled,
                            positions |-> IF sh.raised THEN "none"
                                          ELSE get_positions(sh.class, cname)]
               /\ nbuilt' = nbuilt + 1
               /\ UNCHANGED notMap

(***************************************************************************)
(* source_map.py: SourceMap._get_positions.  The assembly of a contract is *)
(* a chain of levels: the contract's runtime assembly and, below it, the   *)
(* assembly under .data["0"] of the level above.  A level may or may not   *)
(* have a ".code" list.  A code entry is written <<level, index>> and the  *)
(* sentinel None <<0, 0>>.  The lists of the cached assembly are shared    *)
(* objects: what _get_positions appends to the list it was handed is       *)
(* appended to the list in SourceMap.position_groups.                      *)
(***************************************************************************)
\* s.split(":") of a string kept as the sequence of its parts and colons
RECURSIVE SplitColon(_, _)
SplitColon(src, part) ==
    IF src = <<>> THEN <<part>>
    ELSE IF Head(src) = ":" THEN <<part>> \o SplitColon(Tail(src), <<>>)
    ELSE SplitColon(Tail(src), Append(part, Head(src)))

MaxSegments == 3

MaxCode == 2

MaxGets == 3

None == <<0, 0>>

Code(level, n) == [i \in 1..n |-> <<level, i>>]

\* a level with n code entries; n = -1 is a level without ".code"
Segment(level, n) == [has |-> n >= 0, code |-> IF n >= 0 THEN Code(level, n) ELSE <<>>]

\* the contract is missing from position_groups
NoAsm == [present |-> FALSE, segs |-> <<>>]

AsmOf(shape) == [present |-> TRUE,
                 segs |-> [l \in 1..Len(shape) |-> Segment(l, shape[l])]]

Assemblies ==
    {NoAsm} \cup
    {AsmOf(shape) : shape \in UNION {[1..k -> -1..MaxCode] : k \in 1..MaxSegments}}

\* the while loop of _get_positions: positions is the list being extended and
\* level the assembly the loop stands at
RECURSIVE Extend(_, _, _)
Extend(positions, segs, level) ==
    LET appended == Append(positions, None)
    IN IF level + 1 <= Len(segs) /\ segs[level + 1].has
       THEN Extend(appended \o segs[level + 1].code, segs, level + 1)
       ELSE appended

\* _get_positions on the cached assembly a: the list returned and the cached
\* assembly afterwards
GetPositionsOf(a) ==
    IF ~a.present \/ ~a.segs[1].has
    THEN [asm |-> a, value |-> <<>>]
    ELSE LET positions == Extend(a.segs[1].code, a.segs, 1)
         IN [asm |-> [a EXCEPT !.segs[1].code = positions], value |-> positions]

\* the qualified names a SourceMap of the contract can be given: the file part
\* may hold a colon of its own
CNames == {<<"a.sol", ":", "A">>, <<"C", ":", "/a.sol", ":", "A">>}

NoGet == [cname |-> <<>>, input_type |-> "", kind |-> "none", error |-> "", value |-> <<>>]

\* _get_positions of a SourceMap(cname, _, input_type) on the cached assembly a
\* of its contract: "filename, contract_name = self.cname.split(':')" comes
\* before the lookups of the standard json layout
get_positions_of(a, cname, input_type) ==
    IF input_type # "solidity" /\ Len(SplitColon(cname, <<>>)) # 2
    THEN [kind |-> "raise", error |-> "ValueError", asm |-> a, value |-> <<>>]
    ELSE [kind |-> "return", error |-> "", asm |-> GetPositionsOf(a).asm,
          value |-> GetPositionsOf(a).value]

\* self.positions = self._get_positions() of one more SourceMap of the contract
GetPositions ==
    /\ Len(returned) < MaxGets
    /\ \E cname \in CNames, input_type \in {"solidity", "standard json"} :
        LET out == get_positions_of(asm, cname, input_type) IN
        /\ asm' = out.asm
        /\ returned' = IF out.kind = "return" THEN Append(returned, out.value) ELSE returned
        /\ got' = [cname |-> cname, input_type |-> input_type, kind |-> out.kind,
                   error |-> out.error, value |-> out.value]
    /\ UNCHANGED <<asm0, notPositions>>

(***************************************************************************)
(* source_map.py: Source and the queries of SourceMap on the source text.  *)
(* A Python string is a sequence of one-character strings with 0-based     *)
(* offsets: the character at offset i of content is content[i + 1].  A src *)
(* string "start:length:file" is kept as the sequence of its characters.   *)
(***************************************************************************)
MaxContent == 3

Chars == {"a", "\n"}

Contents == UNION {[1..n -> Chars] : n \in 0..MaxContent}

\* Source._load_line_break_positions: the offsets of the line breaks, ascending
line_break_positions(content) ==
    SelectSeq([i \in 1..Len(content) |-> i - 1], LAMBDA i : content[i + 1] = "\n")

\* Source(filename) of a file with this content
Source(content) ==
    [content |-> content, line_break_positions |-> line_break_positions(content)]

NoSource == Source(<<>>)

\* the UTF-8 byte of a character and the character of a byte below 128
Ord(c) == IF c = "\n" THEN 10 ELSE 97

Chr(b) == IF b = 10 THEN "\n" ELSE "a"

Encode(content) == [i \in 1..Len(content) |-> Ord(content[i])]

\* a file on disk: whether open() and read() succeed, and the bytes read
File(readable, bytes) == [readable |-> readable, bytes |-> bytes]

\* the files a Source is built from: the encodings of the contents, files
\* ending in the byte 0xFF, which no UTF-8 text holds, and a missing file
DiskFiles ==
    {File(TRUE, Encode(content)) : content \in Contents} \cup
    {File(TRUE, Append(Encode(content), 255)) :
        content \in {c \in Contents : Len(c) < MaxContent}} \cup
    {File(FALSE, <<>>)}

\* Source._load_content: open, read and decode inside try, except IOError
load_content(f) ==
    IF ~f.readable
    THEN [kind |-> "return", error |-> "", content |-> <<>>,
          printed |-> "Error: Source file not found or cannot be read"]
    ELSE IF \E i \in 1..Len(f.bytes) : f.bytes[i] >= 128
    THEN [kind |-> "raise", error |-> "UnicodeDecodeError", content |-> <<>>,
          printed |-> ""]
    ELSE [kind |-> "return", error |-> "", printed |-> "",
          content |-> [i \in 1..Len(f.bytes) |-> Chr(f.bytes[i])]]

\* Source(filename) on the file f: the file and the outcome of _load_content
Load(f) == [file |-> f] @@ load_content(f)

NotLoaded == Load(File(TRUE, <<>>))

\* the index i of a slice bound on a string of length n
SliceBound(i, n) ==
    IF i < 0 THEN (IF i + n < 0 THEN 0 ELSE i + n) ELSE IF i > n THEN n ELSE i

\* content[lo:hi]
Slice(content, lo, hi) ==
    LET from == SliceBound(lo, Len(content))
        to == SliceBound(hi, Len(content))
    IN IF from >= to THEN <<>> ELSE SubSeq(content, from + 1, to)

DigitChars == <<"0", "1", "2", "3", "4", "5", "6", "7", "8", "9">>

\* str(n)
RECURSIVE Decimal(_)
Decimal(n) ==
    IF n < 0 THEN <<"-">> \o Decimal(-n)
    ELSE IF n < 10 THEN <<DigitChars[n + 1]>>
    ELSE Decimal(n \div 10) \o <<DigitChars[(n % 10) + 1]>>

\* the src string solc writes for a span of the first source file
Src(start, length) == Decimal(start) \o <<":">> \o Decimal(length) \o <<":", "0">>

\* the spans asked about: offsets from -1 to one past the longest content
Srcs == {Src(start, length) : start \in -1..MaxContent, length \in 0..MaxContent}

Spans == {[begin |-> b, end |-> e] : b \in 0..MaxContent, e \in 0..MaxContent}

RECURSIVE IntOfDigits(_)
IntOfDigits(digits) ==
    IF digits = <<>> THEN 0
    ELSE 10 * IntOfDigits(SubSeq(digits, 1, Len(digits) - 1))
            + (CHOOSE d \in 0..9 : DigitChars[d + 1] = digits[Len(digits)])

\* int(s) of a well-formed decimal string
IntOf(s) == IF Head(s) = "-" THEN 0 - IntOfDigits(Tail(s)) ELSE IntOfDigits(s)

\* the while loop of _find_lower_bound
RECURSIVE LowerBoundLoop(_, _, _, _)
LowerBoundLoop(target, array, start, length) ==
    IF length > 0
    THEN LET half == length \div 2
             middle == start + half
         IN IF array[middle + 1] <= target
            THEN LowerBoundLoop(target, array, middle + 1, length - 1 - half)
            ELSE LowerBoundLoop(target, array, start, half)
    ELSE start

find_lower_bound_strict(target, array) ==
    LowerBoundLoop(target - 1, array, 0, Len(array)) - 1

find_lower_bound(target, array) == LowerBoundLoop(target, array, 0, Len(array)) - 1

NoneLoc == [none |-> TRUE, line |-> 0, column |-> 0]

convert_from_char_pos_unshifted(src, pos) ==
    IF pos < 0 \/ pos >= Len(src.content) THEN NoneLoc
    ELSE LET line == find_lower_bound(pos, src.line_break_positions)
             begin_col_offset == IF line < 0 THEN 0
                                 ELSE src.line_break_positions[line + 1] + 1
         IN [none |-> FALSE, line |-> line, column |-> pos - begin_col_offset]

\* _convert_from_char_pos on the Source src
convert_from_char_pos(src, pos) ==
    IF pos < 0 \/ pos >= Len(src.content) THEN NoneLoc
    ELSE LET line == find_lower_bound(pos, src.line_break_positions)
             begin_col_offset == IF line < 0 THEN 0
                                 ELSE src.line_break_positions[line + 1] + 1
         IN [none |-> FALSE, line |-> line + 1, column |-> pos - begin_col_offset]

convert_offset_to_line_column(src, pos) ==
    IF pos.begin >= 0 /\ pos.end >= pos.begin
    THEN [begin |-> convert_from_char_pos(src, pos.begin),
          end |-> convert_from_char_pos(src, pos.end)]
    ELSE [begin |-> NoneLoc, end |-> NoneLoc]

convert_src_to_pos(src) ==
    LET src_parts == SplitColon(src, <<>>)
        begin == IntOf(src_parts[1])
        length == IntOf(src_parts[2])
    IN [begin |-> begin, end |-> begin + length - 1]

get_source_code_from_src_inclusive(src, s) ==
    LET src_parts == SplitColon(s, <<>>)
        start == IntOf(src_parts[1])
        length == IntOf(src_parts[2])
        end == start + length
    IN Slice(src.content, start, end + 1)

get_source_code_from_src(src, s) ==
    LET src_parts == SplitColon(s, <<>>)
        start == IntOf(src_parts[1])
        length == IntOf(src_parts[2])
        end == start + length
    IN Slice(src.content, start, end)

\* the backward scan for the start of the line: while begin > 0 and
\* content[begin-1] != '\n'
RECURSIVE ScanBack(_, _)
ScanBack(content, begin) ==
    IF begin > 0 /\ content[begin] # "\n" THEN ScanBack(content, begin - 1) ELSE begin

\* the body get_buggy_line and get_buggy_line_from_src share, once pos is known
buggy_line(src, pos) ==
    LET location == convert_offset_to_line_column(src, pos)
        line_num == location.begin.line
    IN IF location.begin.none THEN <<>>
       ELSE IF line_num <= 0 \/ line_num > Len(src.line_break_positions)
       THEN Slice(src.content, ScanBack(src.content, pos.begin), pos.end + 1)
       ELSE Slice(src.content, src.line_break_positions[line_num] + 1, pos.end + 1)

NoPos == [begin |-> 0, end |-> 0]

\* found: the query had a span to work on
NoAnswer == [op |-> "none", offset |-> 0, found |-> FALSE, pos |-> NoPos, src |-> <<>>,
             loc |-> NoneLoc, end |-> NoneLoc, text |-> <<>>]

\* the engine stores the span of the instruction at pc 0: a span of the text
\* the compiler read, which the text the Source holds covers unless it is empty
RecordPosition ==
    /\ loaded.kind = "return"
    /\ instr_positions = <<>>
    /\ \E pos \in Spans :
        /\ source.content # <<>> => pos.end < Len(source.content)
        /\ instr_positions' = <<pos>>
    /\ UNCHANGED <<source, loaded, answer, notText>>

\* get_source_code(pc) for pc 0
GetSourceCode ==
    /\ loaded.kind = "return"
    /\ answer' = [NoAnswer EXCEPT
                    !.op = "get_source_code",
                    !.found = instr_positions # <<>>,
                    !.pos = IF instr_positions = <<>> THEN NoPos ELSE instr_positions[1],
                    !.text = IF instr_positions = <<>> THEN <<>>
                             ELSE Slice(source.content, instr_positions[1].begin,
                                        instr_positions[1].end + 1)]
    /\ UNCHANGED <<source, loaded, instr_positions, notText>>

\* get_location(pc) for pc 0; {} is an answer that was not found
GetLocation ==
    /\ loaded.kind = "return"
    /\ answer' = [NoAnswer EXCEPT
                    !.op = "get_location",
                    !.found = instr_positions # <<>>,
                    !.pos = IF instr_positions = <<>> THEN NoPos ELSE instr_positions[1],
                    !.loc = IF instr_positions = <<>> THEN NoneLoc
                            ELSE convert_offset_to_line_column(source, instr_positions[1]).begin,
                    !.end = IF instr_positions = <<>> THEN NoneLoc
                            ELSE convert_offset_to_line_column(source, instr_positions[1]).end]
    /\ UNCHANGED <<source, loaded, instr_positions, notText>>

\* _convert_from_char_pos(pos)
ConvertFromCharPos ==
    /\ loaded.kind = "return"
    /\ \E pos \in -1..(Len(source.content) + 1) :
        answer' = [NoAnswer EXCEPT !.op = "convert_from_char_pos", !.offset = pos,
                                   !.loc = convert_from_char_pos(source, pos)]
    /\ UNCHANGED <<source, loaded, instr_positions, notText>>

\* get_buggy_line(pc) for pc 0
GetBuggyLine ==
    /\ loaded.kind = "return"
    /\ answer' = [NoAnswer EXCEPT
                    !.op = "get_buggy_line",
                    !.found = instr_positions # <<>>,
                    !.pos = IF instr_positions = <<>> THEN NoPos ELSE instr_positions[1],
                    !.text = IF instr_positions = <<>> THEN <<>>
                             ELSE buggy_line(source, instr_positions[1])]
    /\ UNCHANGED <<source, loaded, instr_positions, notText>>

\* get_buggy_line_from_src(src)
GetBuggyLineFromSrc ==
    /\ loaded.kind = "return"
    /\ \E src \in Srcs :
        answer' = [NoAnswer EXCEPT !.op = "get_buggy_line_from_src", !.src = src,
                                   !.found = TRUE,
                                   !.pos = convert_src_to_pos(src),
                                   !.text = buggy_line(source, convert_src_to_pos(src))]
    /\ UNCHANGED <<source, loaded, instr_positions, notText>>

\* get_source_code_from_src(src)
GetSourceCodeFromSrc ==
    /\ loaded.kind = "return"
    /\ \E src \in Srcs :
        answer' = [NoAnswer EXCEPT !.op = "get_source_code_from_src", !.src = src,
                                   !.text = get_source_code_from_src(source, src)]
    /\ UNCHANGED <<source, loaded, instr_positions, notText>>

(***************************************************************************)
(* ast_helper.py: get_callee_src_pairs and _find_contract_path.  A         *)
(* qualified name and a contract name are strings, kept as sequences.      *)
(***************************************************************************)

MaxPaths == 3

MaxNodes == 2

\* qualified names "file:Contract", kept as the sequence of their parts and colons
Paths == {<<"a.sol", ":", "A">>, <<"b.sol", ":", "A">>, <<"a.sol", ":", "B">>}

\* the keys of contractsByName in the order the dict iterates them
PathLists ==
    {ps \in UNION {[1..n -> Paths] : n \in 0..MaxPaths} :
        \A i, j \in 1..Len(ps) : ps[i] = ps[j] => i = j}

\* a call node found by the walker: whether it has children, the words of the
\* first child's type (type.split(" ")) and its src
CallNode(children, type, src) == [children |-> children, type |-> type, src |-> src]

CallNodes ==
    {CallNode(TRUE, <<"contract", <<"A">>>>, <<"1">>),
     CallNode(TRUE, <<"contract", <<"B">>>>, <<"2">>),
     CallNode(TRUE, <<"address", <<>>>>, <<"3">>),
     CallNode(FALSE, <<"", <<>>>>, <<"4">>)}

NodeLists == UNION {[1..n -> CallNodes] : n \in 0..MaxNodes}

\* _find_contract_path: the first path whose last colon part is contract, ""
\* when the loop ends without a match
RECURSIVE find_contract_path(_, _)
find_contract_path(paths, contract) ==
    IF paths = <<>> THEN <<>>
    ELSE LET parts == SplitColon(Head(paths), <<>>)
             cname == parts[Len(parts)]
         IN IF contract = cname THEN Head(paths)
            ELSE find_contract_path(Tail(paths), contract)

\* the loop of get_callee_src_pairs over the nodes the walker found
RECURSIVE PairsOf(_, _)
PairsOf(paths, nodes) ==
    IF nodes = <<>> THEN <<>>
    ELSE LET node == Head(nodes)
             rest == PairsOf(paths, Tail(nodes))
         IN IF node.children /\ node.type[1] = "contract"
            THEN <<[contract |-> node.type[2],
                    contract_path |-> find_contract_path(paths, node.type[2]),
                    src |-> node.src]>> \o rest
            ELSE rest

\* get_callee_src_pairs(c_name): contractsByName[c_name] raises KeyError for
\* an unknown name
get_callee_src_pairs(paths, c_name, nodes) ==
    IF \A i \in 1..Len(paths) : paths[i] # c_name
    THEN [kind |-> "raise", error |-> "KeyError", value |-> <<>>]
    ELSE [kind |-> "return", error |-> "", value |-> PairsOf(paths, nodes)]

NoPairs == [kind |-> "none", error |-> "", value |-> <<>>]

GetCalleeSrcPairs ==
    \E c_name \in Paths, nodes \in NodeLists :
        /\ callee_src_pairs' = get_callee_src_pairs(contract_paths, c_name, nodes)
        /\ UNCHANGED <<contract_paths, notCallee>>

(***************************************************************************)
(* ast_helper.py and source_map.py: the calldata layout of the parameters. *)
(* A FunctionDefinition node is kept as its name and the                   *)
(* VariableDeclaration nodes of its first ParameterList; a parameter node  *)
(* as its name, the name of its type node and the values of the Literal    *)
(* nodes below it, each a decimal string.  A parameter is named by the     *)
(* definition it belongs to and its place in that definition.              *)
(***************************************************************************)
MaxParams == 2

MaxArray == 2

FuncNames == {"f", "g"}

\* the type nodes of a parameter: a scalar, an array without a literal
\* length, an array of a literal length
ParamTypes ==
    {[type |-> "ElementaryTypeName", literals |-> <<>>],
     [type |-> "ArrayTypeName", literals |-> <<>>]}
    \cup {[type |-> "ArrayTypeName", literals |-> <<Decimal(n)>>] : n \in 1..MaxArray}

ParamLists == UNION {[1..n -> ParamTypes] : n \in 0..MaxParams}

\* the d-th FunctionDefinition of the contract
FunctionDefinition(d, name, types) ==
    [name |-> name,
     params |-> [k \in 1..Len(types) |->
                    [name |-> <<d, k>>, type |-> types[k].type,
                     literals |-> types[k].literals]]]

\* the param dict AstHelper builds for a VariableDeclaration node
Param(param_node) ==
    IF param_node.type = "ArrayTypeName"
    THEN [name |-> param_node.name, type |-> param_node.type, has_value |-> TRUE,
          value |-> IF param_node.literals # <<>> THEN IntOf(param_node.literals[1])
                    ELSE 1]
    ELSE [name |-> param_node.name, type |-> param_node.type, has_value |-> FALSE,
          value |-> 0]

\* the loop over the parameter nodes of one function definition
RECURSIVE AddParams(_, _, _)
AddParams(dict, func_name, param_nodes) ==
    IF param_nodes = <<>> THEN dict
    ELSE AddParams(IF func_name \in DOMAIN dict
                   THEN [dict EXCEPT ![func_name] = Append(@, Param(Head(param_nodes)))]
                   ELSE dict @@ (func_name :> <<Param(Head(param_nodes))>>),
                   func_name, Tail(param_nodes))

\* the loop over the function definitions
RECURSIVE AddFunctions(_, _)
AddFunctions(dict, func_def_nodes) ==
    IF func_def_nodes = <<>> THEN dict
    ELSE AddFunctions(AddParams(dict, Head(func_def_nodes).name,
                                Head(func_def_nodes).params),
                      Tail(func_def_nodes))

\* AstHelper.get_func_name_to_params
get_func_name_to_params(func_def_nodes) == AddFunctions(<<>>, func_def_nodes)

RECURSIVE PositionsByOne(_, _)
PositionsByOne(params, calldataload_position) ==
    IF params = <<>> THEN <<>>
    ELSE <<[name |-> Head(params).name, type |-> Head(params).type,
            has_value |-> Head(params).has_value, value |-> Head(params).value,
            position |-> calldataload_position]>>
         \o PositionsByOne(Tail(params), calldataload_position + 1)

\* the loop of SourceMap._get_func_name_to_params over the parameters of one
\* function name
RECURSIVE Positions(_, _)
Positions(params, calldataload_position) ==
    IF params = <<>> THEN <<>>
    ELSE <<[name |-> Head(params).name, type |-> Head(params).type,
            has_value |-> Head(params).has_value, value |-> Head(params).value,
            position |-> calldataload_position]>>
         \o Positions(Tail(params),
                      calldataload_position
                        + (IF Head(params).type = "ArrayTypeName"
                           THEN (IF Head(params).has_value THEN Head(params).value ELSE 1)
                           ELSE 1))

NoParams == [done |-> FALSE, value |-> <<>>]

\* self.func_name_to_params = self._get_func_name_to_params()
GetFuncNameToParams ==
    /\ ~func_name_to_params.done
    /\ func_name_to_params' =
        [done |-> TRUE,
         value |-> [func_name \in DOMAIN get_func_name_to_params(functions) |->
                        Positions(get_func_name_to_params(functions)[func_name], 0)]]
    /\ UNCHANGED <<functions, notParams>>

(***************************************************************************)
(* oyente.py: run_solidity_analysis.  symExec.run is the engine: it        *)
(* returns the result of one contract and a return code, 0 or 1.  A result *)
(* is kept as the run that produced it.  A dict is a function on its keys. *)
(***************************************************************************)

MaxInputs == 3

SourceNames == {"a.sol", "b.sol"}

ContractNames == {"A", "B"}

\* what InputHelper prepared for one contract
Input(c_source, c_name) == [c_source |-> c_source, c_name |-> c_name]

InputLists ==
    UNION {[1..n -> {Input(c_source, c_name) :
                        c_source \in SourceNames, c_name \in ContractNames}] :
           n \in 0..MaxInputs}

\* the try/except KeyError that stores result under results[c_source][c_name]
store(res, inp, result) ==
    IF inp.c_source \in DOMAIN res
    THEN [res EXCEPT ![inp.c_source] = (inp.c_name :> result) @@ @]
    ELSE (inp.c_source :> (inp.c_name :> result)) @@ res

next_exit_code_last(code, return_code) == return_code

\* if return_code == 1: exit_code = 1
next_exit_code(code, return_code) == IF return_code = 1 THEN 1 ELSE code

NotReturned == [done |-> FALSE, results |-> <<>>, exit_code |-> 0]

\* one pass of the for loop: the engine analyses the next input and ends with
\* return_code
AnalyseNext ==
    /\ ~analysis.done
    /\ Len(runs) < Len(inputs)
    /\ \E return_code \in {0, 1} :
        LET inp == inputs[Len(runs) + 1]
            result == [run |-> Len(runs) + 1, return_code |-> return_code]
        IN /\ runs' = Append(runs, [inp |-> inp, return_code |-> return_code])
           /\ results' = store(results, inp, result)
           /\ exit_code' = next_exit_code(exit_code, return_code)
    /\ UNCHANGED <<inputs, analysis, notAnalysis>>

\* the loop is over: return results, exit_code
ReturnResults ==
    /\ ~analysis.done
    /\ Len(runs) = Len(inputs)
    /\ analysis' = [done |-> TRUE, results |-> results, exit_code |-> exit_code]
    /\ UNCHANGED <<inputs, runs, results, exit_code, notAnalysis>>

(***************************************************************************)
(* Specifications                                                          *)
(***************************************************************************)
InitConv ==
    /\ number \in Numbers
    /\ orig = number
    /\ trail = <<>>
    /\ scopes = <<0>>
    /\ cs = NoCall
    /\ contracts = IdleRegistry
    /\ state_defs = NoExtract
    /\ pcs = <<>>
    /\ global_states = <<>>
    /\ renamed = NotRenamed
    /\ calls = 0
    /\ sm = ClassDefaults
    /\ built = NotBuilt
    /\ nbuilt = 0
    /\ asm0 = NoAsm
    /\ asm = NoAsm
    /\ returned = <<>>
    /\ source = NoSource
    /\ instr_positions = <<>>
    /\ answer = NoAnswer
    /\ functions = <<>>
    /\ func_name_to_params = NoParams
    /\ var_names = NoNames
    /\ got = NoGet
    /\ contract_paths = <<>>
    /\ callee_src_pairs = NoPairs
    /\ loaded = NotLoaded
    /\ inputs = <<>>
    /\ runs = <<>>
    /\ results = <<>>
    /\ exit_code = 0
    /\ analysis = NotReturned

NextConv == ToUnsigned \/ ToSigned

SpecConv == InitConv /\ [][NextConv]_vars

InitSolver ==
    /\ number = BigZero
    /\ orig = BigZero
    /\ trail = <<>>
    /\ scopes = <<0>>
    /\ cs = NoCall
    /\ contracts = IdleRegistry
    /\ state_defs = NoExtract
    /\ pcs = <<>>
    /\ global_states = <<>>
    /\ renamed = NotRenamed
    /\ calls = 0
    /\ sm = ClassDefaults
    /\ built = NotBuilt
    /\ nbuilt = 0
    /\ asm0 = NoAsm
    /\ asm = NoAsm
    /\ returned = <<>>
    /\ source = NoSource
    /\ instr_positions = <<>>
    /\ answer = NoAnswer
    /\ functions = <<>>
    /\ func_name_to_params = NoParams
    /\ var_names = NoNames
    /\ got = NoGet
    /\ contract_paths = <<>>
    /\ callee_src_pairs = NoPairs
    /\ loaded = NotLoaded
    /\ inputs = <<>>
    /\ runs = <<>>
    /\ results = <<>>
    /\ exit_code = 0
    /\ analysis = NotReturned

NextSolver == SolverPush \/ SolverAdd \/ SolverPop \/ CheckSat

SpecSolver == InitSolver /\ [][NextSolver]_vars

InitAst ==
    /\ number = BigZero
    /\ orig = BigZero
    /\ trail = <<>>
    /\ scopes = <<0>>
    /\ cs = NoCall
    /\ contracts \in Registries
    /\ state_defs = NoExtract
    /\ pcs = <<>>
    /\ global_states = <<>>
    /\ renamed = NotRenamed
    /\ calls = 0
    /\ sm = ClassDefaults
    /\ built = NotBuilt
    /\ nbuilt = 0
    /\ asm0 = NoAsm
    /\ asm = NoAsm
    /\ returned = <<>>
    /\ source = NoSource
    /\ instr_positions = <<>>
    /\ answer = NoAnswer
    /\ functions = <<>>
    /\ func_name_to_params = NoParams
    /\ var_names = NoNames
    /\ got = NoGet
    /\ contract_paths = <<>>
    /\ callee_src_pairs = NoPairs
    /\ loaded = NotLoaded
    /\ inputs = <<>>
    /\ runs = <<>>
    /\ results = <<>>
    /\ exit_code = 0
    /\ analysis = NotReturned

NextAst == ExtractStateDefinitions

SpecAst == InitAst /\ [][NextAst]_vars

InitNames ==
    /\ number = BigZero
    /\ orig = BigZero
    /\ trail = <<>>
    /\ scopes = <<0>>
    /\ cs = NoCall
    /\ contracts \in Registries
    /\ state_defs = NoExtract
    /\ pcs = <<>>
    /\ global_states = <<>>
    /\ renamed = NotRenamed
    /\ calls = 0
    /\ sm = ClassDefaults
    /\ built = NotBuilt
    /\ nbuilt = 0
    /\ asm0 = NoAsm
    /\ asm = NoAsm
    /\ returned = <<>>
    /\ source = NoSource
    /\ instr_positions = <<>>
    /\ answer = NoAnswer
    /\ functions = <<>>
    /\ func_name_to_params = NoParams
    /\ var_names = NoNames
    /\ got = NoGet
    /\ contract_paths = <<>>
    /\ callee_src_pairs = NoPairs
    /\ loaded = NotLoaded
    /\ inputs = <<>>
    /\ runs = <<>>
    /\ results = <<>>
    /\ exit_code = 0
    /\ analysis = NotReturned

NextNames == ExtractStateVariableNames

SpecNames == InitNames /\ [][NextNames]_vars

InitCallee ==
    /\ number = BigZero
    /\ orig = BigZero
    /\ trail = <<>>
    /\ scopes = <<0>>
    /\ cs = NoCall
    /\ contracts = IdleRegistry
    /\ state_defs = NoExtract
    /\ pcs = <<>>
    /\ global_states = <<>>
    /\ renamed = NotRenamed
    /\ calls = 0
    /\ sm = ClassDefaults
    /\ built = NotBuilt
    /\ nbuilt = 0
    /\ asm0 = NoAsm
    /\ asm = NoAsm
    /\ returned = <<>>
    /\ source = NoSource
    /\ instr_positions = <<>>
    /\ answer = NoAnswer
    /\ functions = <<>>
    /\ func_name_to_params = NoParams
    /\ var_names = NoNames
    /\ got = NoGet
    /\ contract_paths \in PathLists
    /\ callee_src_pairs = NoPairs
    /\ loaded = NotLoaded
    /\ inputs = <<>>
    /\ runs = <<>>
    /\ results = <<>>
    /\ exit_code = 0
    /\ analysis = NotReturned

NextCallee == GetCalleeSrcPairs

SpecCallee == InitCallee /\ [][NextCallee]_vars

InitAnalysis ==
    /\ number = BigZero
    /\ orig = BigZero
    /\ trail = <<>>
    /\ scopes = <<0>>
    /\ cs = NoCall
    /\ contracts = IdleRegistry
    /\ state_defs = NoExtract
    /\ pcs = <<>>
    /\ global_states = <<>>
    /\ renamed = NotRenamed
    /\ calls = 0
    /\ sm = ClassDefaults
    /\ built = NotBuilt
    /\ nbuilt = 0
    /\ asm0 = NoAsm
    /\ asm = NoAsm
    /\ returned = <<>>
    /\ source = NoSource
    /\ instr_positions = <<>>
    /\ answer = NoAnswer
    /\ functions = <<>>
    /\ func_name_to_params = NoParams
    /\ var_names = NoNames
    /\ got = NoGet
    /\ contract_paths = <<>>
    /\ callee_src_pairs = NoPairs
    /\ loaded = NotLoaded
    /\ inputs \in InputLists
    /\ runs = <<>>
    /\ results = <<>>
    /\ exit_code = 0
    /\ analysis = NotReturned

NextAnalysis == AnalyseNext \/ ReturnResults

SpecAnalysis == InitAnalysis /\ [][NextAnalysis]_vars

InitRename ==
    /\ number = BigZero
    /\ orig = BigZero
    /\ trail = <<>>
    /\ scopes = <<0>>
    /\ cs = NoCall
    /\ contracts = IdleRegistry
    /\ state_defs = NoExtract
    /\ \E n \in 0..MaxLeaves :
        \E leaves \in [1..n -> RenameNames], lens \in Cuts(n) :
            \E np \in Shares(Len(lens)) :
                \E ks \in KeyOrders(Len(lens) - np) :
                    /\ pcs = SubSeq(Cut(leaves, lens), 1, np)
                    /\ global_states =
                        [i \in 1..(Len(lens) - np) |-> <<ks[i], Cut(leaves, lens)[np + i]>>]
    /\ renamed = NotRenamed
    /\ calls = 0
    /\ sm = ClassDefaults
    /\ built = NotBuilt
    /\ nbuilt = 0
    /\ asm0 = NoAsm
    /\ asm = NoAsm
    /\ returned = <<>>
    /\ source = NoSource
    /\ instr_positions = <<>>
    /\ answer = NoAnswer
    /\ functions = <<>>
    /\ func_name_to_params = NoParams
    /\ var_names = NoNames
    /\ got = NoGet
    /\ contract_paths = <<>>
    /\ callee_src_pairs = NoPairs
    /\ loaded = NotLoaded
    /\ inputs = <<>>
    /\ runs = <<>>
    /\ results = <<>>
    /\ exit_code = 0
    /\ analysis = NotReturned

NextRename == RenameVars \/ RenameAgain

SpecRename == InitRename /\ [][NextRename]_vars

InitMap ==
    /\ number = BigZero
    /\ orig = BigZero
    /\ trail = <<>>
    /\ scopes = <<0>>
    /\ cs = NoCall
    /\ contracts = IdleRegistry
    /\ state_defs = NoExtract
    /\ pcs = <<>>
    /\ global_states = <<>>
    /\ renamed = NotRenamed
    /\ calls = 0
    /\ sm = ClassDefaults
    /\ built = NotBuilt
    /\ nbuilt = 0
    /\ asm0 = NoAsm
    /\ asm = NoAsm
    /\ returned = <<>>
    /\ source = NoSource
    /\ instr_positions = <<>>
    /\ answer = NoAnswer
    /\ functions = <<>>
    /\ func_name_to_params = NoParams
    /\ var_names = NoNames
    /\ got = NoGet
    /\ contract_paths = <<>>
    /\ callee_src_pairs = NoPairs
    /\ loaded = NotLoaded
    /\ inputs = <<>>
    /\ runs = <<>>
    /\ results = <<>>
    /\ exit_code = 0
    /\ analysis = NotReturned

NextMap == SourceMapInit

SpecMap == InitMap /\ [][NextMap]_vars

InitPositions ==
    /\ number = BigZero
    /\ orig = BigZero
    /\ trail = <<>>
    /\ scopes = <<0>>
    /\ cs = NoCall
    /\ contracts = IdleRegistry
    /\ state_defs = NoExtract
    /\ pcs = <<>>
    /\ global_states = <<>>
    /\ renamed = NotRenamed
    /\ calls = 0
    /\ sm = ClassDefaults
    /\ built = NotBuilt
    /\ nbuilt = 0
    /\ asm0 \in Assemblies
    /\ asm = asm0
    /\ returned = <<>>
    /\ source = NoSource
    /\ instr_positions = <<>>
    /\ answer = NoAnswer
    /\ functions = <<>>
    /\ func_name_to_params = NoParams
    /\ var_names = NoNames
    /\ got = NoGet
    /\ contract_paths = <<>>
    /\ callee_src_pairs = NoPairs
    /\ loaded = NotLoaded
    /\ inputs = <<>>
    /\ runs = <<>>
    /\ results = <<>>
    /\ exit_code = 0
    /\ analysis = NotReturned

NextPositions == GetPositions

SpecPositions == InitPositions /\ [][NextPositions]_vars

InitText ==
    /\ number = BigZero
    /\ orig = BigZero
    /\ trail = <<>>
    /\ scopes = <<0>>
    /\ cs = NoCall
    /\ contracts = IdleRegistry
    /\ state_defs = NoExtract
    /\ pcs = <<>>
    /\ global_states = <<>>
    /\ renamed = NotRenamed
    /\ calls = 0
    /\ sm = ClassDefaults
    /\ built = NotBuilt
    /\ nbuilt = 0
    /\ asm0 = NoAsm
    /\ asm = NoAsm
    /\ returned = <<>>
    /\ loaded \in {Load(f) : f \in DiskFiles}
    /\ source = IF loaded.kind = "return" THEN Source(loaded.content) ELSE NoSource
    /\ instr_positions = <<>>
    /\ answer = NoAnswer
    /\ functions = <<>>
    /\ func_name_to_params = NoParams
    /\ var_names = NoNames
    /\ got = NoGet
    /\ contract_paths = <<>>
    /\ callee_src_pairs = NoPairs
    /\ inputs = <<>>
    /\ runs = <<>>
    /\ results = <<>>
    /\ exit_code = 0
    /\ analysis = NotReturned

NextText ==
    \/ RecordPosition
    \/ ConvertFromCharPos
    \/ GetBuggyLine
    \/ GetBuggyLineFromSrc
    \/ GetSourceCodeFromSrc
    \/ GetSourceCode
    \/ GetLocation

SpecText == InitText /\ [][NextText]_vars

InitParams ==
    /\ number = BigZero
    /\ orig = BigZero
    /\ trail = <<>>
    /\ scopes = <<0>>
    /\ cs = NoCall
    /\ contracts = IdleRegistry
    /\ state_defs = NoExtract
    /\ pcs = <<>>
    /\ global_states = <<>>
    /\ renamed = NotRenamed
    /\ calls = 0
    /\ sm = ClassDefaults
    /\ built = NotBuilt
    /\ nbuilt = 0
    /\ asm0 = NoAsm
    /\ asm = NoAsm
    /\ returned = <<>>
    /\ source = NoSource
    /\ instr_positions = <<>>
    /\ answer = NoAnswer
    /\ functions \in {<<FunctionDefinition(1, "f", first), FunctionDefinition(2, name, second)>> :
                        first \in ParamLists, second \in ParamLists, name \in FuncNames}
    /\ func_name_to_params = NoParams
    /\ var_names = NoNames
    /\ got = NoGet
    /\ contract_paths = <<>>
    /\ callee_src_pairs = NoPairs
    /\ loaded = NotLoaded
    /\ inputs = <<>>
    /\ runs = <<>>
    /\ results = <<>>
    /\ exit_code = 0
    /\ analysis = NotReturned

NextParams == GetFuncNameToParams

SpecParams == InitParams /\ [][NextParams]_vars

(***************************************************************************)
(* Properties                                                              *)
(***************************************************************************)

\* the position of contract id in a linearization (most derived first)
Rank(lin, id) == CHOOSE i \in 1..Len(lin) : lin[i] = id

\* C1: extract_state_definitions(C) returns exactly the direct
\* VariableDeclaration children of the contracts of C's linearization, those of
\* a contract later in the linearization (a more basic one) before those of an
\* earlier one, and those of one contract in their child order.
StateDefinitionsBaseFirst ==
    state_defs.kind = "return" =>
        LET lin == contractsByName(contracts)[state_defs.c_name].attributes.linearizedBaseContracts
            out == state_defs.value
            direct == UNION {{contracts[lin[i]].children[j] :
                                j \in {k \in 1..Len(contracts[lin[i]].children) :
                                    contracts[lin[i]].children[k].name = "VariableDeclaration"}} :
                             i \in 1..Len(lin)}
        IN /\ {out[p] : p \in 1..Len(out)} = direct
           /\ \A p, q \in 1..Len(out) :
                p < q =>
                    \/ Rank(lin, out[p].id[1]) > Rank(lin, out[q].id[1])
                    \/ out[p].id[1] = out[q].id[1] /\ out[p].id[2] < out[q].id[2]

\* the state variables of a contract with two bases, each of the three with a
\* declaration of its own, one of them with a function before its declaration
StateDefinitionsWitness ==
    /\ state_defs.kind = "return"
    /\ state_defs.c_name = QName(3)
    /\ contracts[3].attributes.linearizedBaseContracts = <<3, 1, 2>>
    /\ Len(state_defs.value) = 3
    /\ state_defs.value[1].id[1] = 2
    /\ state_defs.value[3].id = <<3, 2>>
    /\ contracts[3].children[1].name = "FunctionDefinition"

\* the expressions passed to rename_vars and the expressions it returned, path
\* conditions first
InExprs == pcs \o ValuesOf(global_states)

OutExprs == renamed.ret_pcs \o ValuesOf(renamed.ret_gs)

\* the leaves of the expressions passed in
Leaves == {<<e, i>> \in (1..Len(InExprs)) \X (1..MaxLeaves + 1) : i <= Len(InExprs[e])}

In(l) == InExprs[l[1]][l[2]]

Out(l) == OutExprs[l[1]][l[2]]

\* a storage variable whose slot is no key of global_states
Untouched(var) ==
    /\ is_storage_var(var)
    /\ get_storage_position(var).kind = "return"
    /\ Slot(get_storage_position(var).isint, get_storage_position(var).pos)
            \notin KeysOf(global_states)

\* C2: a storage variable whose slot is no key of global_states stands under
\* its own name wherever it stood in the path conditions and storage values
\* passed in, in the first call and in every repeated call.
UntouchedStorageKept ==
    renamed.kind = "return" =>
        /\ Len(renamed.ret_pcs) = Len(pcs)
        /\ KeysOf(renamed.ret_gs) = KeysOf(global_states)
        /\ \A l \in Leaves : Untouched(In(l)) => Out(l) = In(l)

\* a repeated call has kept an untouched storage variable next to a variable
\* it renamed
UntouchedStorageKeptWitness ==
    /\ renamed.kind = "return"
    /\ calls = 2
    /\ \E l, k \in Leaves :
        /\ l[1] = k[1]
        /\ In(l) = <<Prefix, Delim, "7">> /\ Out(l) = In(l)
        /\ In(k) = <<Prefix, Delim, "3", Marker>> /\ Out(k) = In(k)
    /\ \E l \in Leaves : Out(l) # In(l)

\* C3: every variable that is not storage-backed and every storage variable
\* whose slot is a key of global_states is replaced by <its name>_old wherever
\* it stood, and its own name stands nowhere in what rename_vars returns.
RenamedEverywhere ==
    renamed.kind = "return" =>
        \A l \in Leaves :
            ~Untouched(In(l)) =>
                /\ Out(l) = NewName(In(l))
                /\ \A k \in Leaves : Out(k) # In(l)

\* C4: two different variables passed in never stand as the same variable in
\* what rename_vars returns.
RenamingInjective ==
    renamed.kind = "return" =>
        \A l, k \in Leaves : In(l) # In(k) => Out(l) # Out(k)

\* C5: a variable is replaced by the same variable wherever it stands in the
\* path conditions and the storage values.
OneCounterpart ==
    renamed.kind = "return" =>
        \A l, k \in Leaves : In(l) = In(k) => Out(l) = Out(k)

\* C6: to_signed(to_unsigned(x)) = x for every x in [-2**255, 2**255 - 1], and
\* to_unsigned(to_signed(y)) = y for every y in [0, 2**256 - 1].
RoundTrip ==
    /\ (trail = <<"to_unsigned", "to_signed">> /\ InSigned(orig)) => number = orig
    /\ (trail = <<"to_signed", "to_unsigned">> /\ InUnsigned(orig)) => number = orig

\* both round trips have been run on the extreme values of their ranges
RoundTripWitness ==
    \/ trail = <<"to_unsigned", "to_signed">> /\ orig = BigSub(BigZero, Pow255)
    \/ trail = <<"to_signed", "to_unsigned">> /\ orig = BigSub(Pow256, Big(0, 1))

\* C7: to_signed maps y in [0, 2**256 - 1] to y - 2**256 when y >= 2**255 and to
\* y otherwise, with a result in [-2**255, 2**255 - 1]; to_unsigned maps x in
\* [-2**255, 2**255 - 1] to x + 2**256 when x < 0 and to x otherwise, with a
\* result in [0, 2**256 - 1].
ConversionRanges ==
    /\ (trail = <<"to_signed">> /\ InUnsigned(orig)) =>
        /\ InSigned(number)
        /\ BigSub(orig, number) = (IF BigLt(orig, Pow255) THEN BigZero ELSE Pow256)
    /\ (trail = <<"to_unsigned">> /\ InSigned(orig)) =>
        /\ InUnsigned(number)
        /\ BigSub(number, orig) = (IF BigLt(orig, BigZero) THEN Pow256 ELSE BigZero)

\* a negative number has been made unsigned, or a number >= 2**255 made signed
ConversionRangesWitness ==
    \/ trail = <<"to_unsigned">> /\ orig = Big(0, -1) /\ number = Big(2, -1)
    \/ trail = <<"to_signed">> /\ orig = Pow255 /\ number = Big(-1, 0)

CachedPerPrimaryFile ==
    (built.shared /\ sm.ast_helper # NoArtifact) =>
        /\ sm.position_groups.src \in {built.parent_filename, ""}
        /\ sm.ast_helper.src = built.parent_filename
        /\ sm.func_to_sig_by_contract.src = built.parent_filename

\* C11 as stated: a construction that finds the shared block already done, or
\* completes it, for the primary file on record sees all three shared
\* artifacts populated, also when an earlier construction failed.
CacheNeverCorrupted ==
    (built.shared /\ built.parent_filename = sm.parent_filename) =>
        /\ sm.position_groups # NoArtifact
        /\ sm.ast_helper # NoArtifact
        /\ sm.func_to_sig_by_contract # NoArtifact

Populated ==
    /\ sm.position_groups # NoArtifact
    /\ sm.ast_helper # NoArtifact
    /\ sm.func_to_sig_by_contract # NoArtifact

RECURSIVE Nested(_, _)
Nested(segs, level) ==
    IF level <= Len(segs) /\ segs[level].has
    THEN <<None>> \o segs[level].code \o Nested(segs, level + 1)
    ELSE <<>>

Stated(a) ==
    IF ~a.present \/ ~a.segs[1].has THEN <<>>
    ELSE a.segs[1].code \o Nested(a.segs, 2)

\* C12 as stated: every _get_positions call for the contract returns the same
\* stream, and the assembly cached in position_groups stays as the compiler
\* produced it.
PositionsStable ==
    /\ \A i, j \in 1..Len(returned) : returned[i] = returned[j]
    /\ asm = asm0

\* C14 as stated: the stream is the contract's own code followed, for each
\* nested level with code, by one sentinel and that level's code, so it holds
\* one sentinel per nested level and none when there is no nested level.
OneSentinelPerNested ==
    \A i \in 1..Len(returned) : returned[i] = Stated(asm0)

\* the offsets of the line breaks of the file
Breaks == {i \in 0..(Len(source.content) - 1) : source.content[i + 1] = "\n"}

\* the n-th line break of the file, n = 1 for the first
NthBreak(n) == CHOOSE p \in Breaks : Cardinality({q \in Breaks : q < p}) = n - 1

Converted == answer.op = "convert_from_char_pos"

ValidOffset(o) == 0 <= o /\ o < Len(source.content)

LineStart(o) ==
    IF {q \in Breaks : q < o} = {} THEN 0
    ELSE 1 + CHOOSE p \in Breaks : p < o /\ \A q \in Breaks : q < o => q <= p

\* content[lo..hi], both ends included
Inclusive(lo, hi) == [i \in 1..(hi - lo + 1) |-> source.content[lo + i]]

\* C19 as stated: for a span inside the file, get_buggy_line and
\* get_buggy_line_from_src return the text from the first character of the
\* line holding the span's begin offset through the span's end offset.
BuggyLineFromLineStart ==
    (/\ answer.op \in {"get_buggy_line", "get_buggy_line_from_src"}
     /\ answer.found
     /\ ValidOffset(answer.pos.begin)
     /\ answer.pos.begin <= answer.pos.end
     /\ answer.pos.end < Len(source.content)) =>
        answer.text = Inclusive(LineStart(answer.pos.begin), answer.pos.end)

\* C20: for a span 'start:length:file' inside the file,
\* get_source_code_from_src returns the length characters from offset start
\* on, which is content[begin..end] for the begin and end that
\* _convert_src_to_pos derives from the span.
SourceCodeOfSpan ==
    answer.op = "get_source_code_from_src" =>
        LET pos == convert_src_to_pos(answer.src) IN
        (pos.begin >= 0 /\ pos.end < Len(source.content)) =>
            /\ Len(answer.text) = pos.end - pos.begin + 1
            /\ \A i \in 1..Len(answer.text) : answer.text[i] = source.content[pos.begin + i]
            /\ answer.text = Inclusive(pos.begin, pos.end)

\* a span of two or more characters that starts after the beginning of the file
SourceCodeOfSpanWitness ==
    /\ answer.op = "get_source_code_from_src"
    /\ convert_src_to_pos(answer.src).begin >= 1
    /\ convert_src_to_pos(answer.src).end < Len(source.content)
    /\ Len(answer.text) >= 2

\* the parameter lists stored under the function names
StoredLists ==
    {func_name_to_params.value[func_name] : func_name \in DOMAIN func_name_to_params.value}

\* the width of a parameter as declared: the literal length of an array that
\* has one, 1 otherwise
Width(param_node) ==
    IF param_node.type = "ArrayTypeName" /\ param_node.literals # <<>>
    THEN IntOf(param_node.literals[1])
    ELSE 1

\* the node that declares a stored parameter
Declared(param) == functions[param.name[1]].params[param.name[2]]

SlotIsSumOfWidths ==
    func_name_to_params.done =>
        \A d \in 1..Len(functions) : \A k \in 1..Len(functions[d].params) :
            \E i \in 1..Len(func_name_to_params.value[functions[d].name]) :
                /\ func_name_to_params.value[functions[d].name][i].name = <<d, k>>
                /\ func_name_to_params.value[functions[d].name][i].position =
                    Sum([j \in 1..(k - 1) |-> Width(functions[d].params[j])])

\* C27 as stated: for a valid offset o the column is >= 0 and is o minus the
\* offset of the first character of the line that holds o, also when o is
\* the offset of a newline character.
ColumnFromLineStart ==
    (Converted /\ ValidOffset(answer.offset)) =>
        /\ ~answer.loc.none
        /\ answer.loc.column >= 0
        /\ answer.loc.column = answer.offset - LineStart(answer.offset)

\* C28 as stated: the first parameter of every function definition has slot
\* 0, also when another definition of the same name comes before it.
OverloadsStartAtZero ==
    func_name_to_params.done =>
        \A d \in 1..Len(functions) :
            Len(functions[d].params) >= 1 =>
                \A list \in StoredLists : \A i \in 1..Len(list) :
                    list[i].name = <<d, 1>> => list[i].position = 0

\* C29: when the solver's check is sat or unsat, check_sat returns that
\* result and pops nothing, so the assertion stack is as before the call,
\* whatever pop_if_exception is.
NoPopOnAnswer ==
    cs.check.res \in {"sat", "unsat"} =>
        /\ cs.kind = "return"
        /\ cs.msg = cs.check.res
        /\ cs.pops = 0
        /\ scopes = cs.before

\* check_sat has answered with pop_if_exception=True inside an open scope that
\* holds an assertion
NoPopOnAnswerWitness ==
    /\ cs.check.res \in {"sat", "unsat"}
    /\ cs.flag
    /\ Depth(cs.before) >= 1
    /\ cs.before[Len(cs.before)] > 0

\* C26 as stated: for every name that is_storage_var takes for a storage
\* variable, get_storage_position returns a slot and does not fail: the token
\* after the first delimiter, an integer when the token is one.
StoragePositionTotal ==
    renamed.kind # "none" =>
        \A l \in Leaves :
            is_storage_var(In(l)) =>
                /\ get_storage_position(In(l)).kind = "return"
                /\ get_storage_position(In(l)).pos = Split(In(l), <<>>)[2]
                /\ get_storage_position(In(l)).isint = IsInt(Split(In(l), <<>>)[2])

\* C23 as stated: the state-variable names of a contract whose own
\* linearization names only contracts of the registry are derived without
\* failure, whatever the other contracts of the registry look like.
SiblingFailureScoped ==
    (/\ var_names.kind # "none"
     /\ Resolvable(contracts,
                   contractsByName(contracts)[var_names.c_name].attributes.linearizedBaseContracts))
        => var_names.kind = "return"

\* C24 as stated: every SourceMap construction with an input kind other than
\* "solidity" and "standard json" fails with the unsupported-input error,
\* however many constructions came before it.
UnsupportedKindAlwaysFails ==
    (built.kind # "none" /\ built.input_type \notin {"solidity", "standard json"}) =>
        /\ built.kind = "raise"
        /\ built.error = "There is no such type of input"

\* C21 as stated: a _get_positions call for a contract that the assembly
\* artifact does not hold returns an empty stream and raises nothing, for
\* either input kind and every qualified name.
AbsentContractEmpty ==
    (got.kind # "none" /\ ~asm0.present) =>
        /\ got.kind = "return"
        /\ got.value = <<>>

\* the places of contract_paths whose qualified name ends in the contract name
Matches(contract) ==
    {i \in 1..Len(contract_paths) :
        LET parts == SplitColon(contract_paths[i], <<>>)
        IN parts[Len(parts)] = contract}

\* C22 as stated: every pair get_callee_src_pairs returns carries a contract
\* path that is never the empty string, and when qualified names of the
\* registry end in the callee's contract name the path is the first of them
\* in the registry's iteration order.
UnresolvedNeverEmpty ==
    \A i \in 1..Len(callee_src_pairs.value) :
        LET pair == callee_src_pairs.value[i]
        IN /\ pair.contract_path # <<>>
           /\ Matches(pair.contract) # {} =>
                /\ pair.contract_path \in {contract_paths[m] : m \in Matches(pair.contract)}
                /\ \A m \in Matches(pair.contract) :
                       contract_paths[m] = pair.contract_path \/
                       \E f \in Matches(pair.contract) :
                           f < m /\ contract_paths[f] = pair.contract_path

\* reading the file as text fails: it cannot be opened or read, or its bytes
\* are no UTF-8 text
ReadFails ==
    \/ ~loaded.file.readable
    \/ \E i \in 1..Len(loaded.file.bytes) : loaded.file.bytes[i] >= 128

\* C25 as stated: when reading the source file fails the Source is built all
\* the same, with empty text and the load error reported, and get_source_code,
\* get_location and get_buggy_line over that text answer with the empty
\* string or no location.
LoadFailureTolerated ==
    ReadFails =>
        /\ loaded.kind = "return"
        /\ loaded.printed # ""
        /\ source.content = <<>>
        /\ answer.op \in {"get_source_code", "get_buggy_line"} => answer.text = <<>>
        /\ answer.op = "get_location" => answer.loc.none /\ answer.end.none

\* C30: run_solidity_analysis hands every input to the engine once, in order,
\* whatever the return codes; results holds an entry under c_source and
\* c_name for every input analysed, the exit code is 1 exactly when a return
\* code was 1, and the function returns only after the last input, with
\* these results and this exit code.
EveryInputAnalysed ==
    /\ Len(runs) <= Len(inputs)
    /\ \A i \in 1..Len(runs) :
        /\ runs[i].inp = inputs[i]
        /\ inputs[i].c_source \in DOMAIN results
        /\ inputs[i].c_name \in DOMAIN results[inputs[i].c_source]
    /\ exit_code = 1 <=> \E i \in 1..Len(runs) : runs[i].return_code = 1
    /\ exit_code \in {0, 1}
    /\ analysis.done =>
        /\ Len(runs) = Len(inputs)
        /\ analysis.results = results
        /\ analysis.exit_code = exit_code

\* returned after a contract that failed and a later one that did not
EveryInputAnalysedWitness ==
    /\ analysis.done
    /\ Len(runs) >= 2
    /\ runs[1].return_code = 1
    /\ runs[Len(runs)].return_code = 0
    /\ analysis.exit_code = 1

====
